---- MODULE Spec2Model ----
(***************************************************************************)
(* Model of the resilient-request / pagination / bounded-concurrency /     *)
(* reconciliation logic of the localization scripts:                       *)
(*   KeyLinkr.py            request_with_retries, get_all_projects,        *)
(*                          get_all_keys, get_linked_child_keys,           *)
(*                          create_key_link, main                          *)
(*   remove_excess_users.py remove_excess_users                            *)
(*   Import tool            PhraseTMSClient.create_entity, validate_row,   *)
(*                          bulk_import                                    *)
(* Each subsystem has its own state variable and its own specification;    *)
(* a specification leaves the other subsystems' variables untouched.       *)
(***************************************************************************)
EXTENDS Integers, Sequences, FiniteSets, TLC

VARIABLES
    call,     \* the logical request being executed by request_with_retries
    ncalls,   \* number of logical requests started so far
    trav,     \* a listing traversal (get_all_projects or get_all_keys)
    link,     \* the link-creation scheduler of main: semaphore, tasks, progress
    run,      \* a key-linking run (main): server data, fetched state, diff
    prune,    \* a run of remove_excess_users
    imp,      \* a run of bulk_import
    sched     \* the weekly loop of remove_excess_users.py

vars == <<call, ncalls, trav, link, run, prune, imp, sched>>

(***************************************************************************)
(* Bounds of the model.                                                    *)
(***************************************************************************)
MaxCalls == 2
MaxItems == 4
MaxPerPage == 3
MaxTasks == 3
MaxLimit == 2
MaxProjects == 2
MaxExcess == 2
MaxRows == 3
MaxTraversals == 2

(***************************************************************************)
(* The server side, as seen by one HTTP attempt.                           *)
(***************************************************************************)
\* KeyLinkr.py:45
max_retries == 10

None == "None"

\* No run of remove_excess_users.
NoPrune == [pc |-> "idle"]
NoImport == [pc |-> "idle"]
NoSchedule == [pc |-> "idle"]

\* No key-linking run.
NoRun == [pc |-> "idle"]

\* The scheduler before main reaches line 279.
NoLink ==
    [pc |-> "idle", N |-> 0, sem |-> 0, waiters |-> <<>>, task |-> <<>>,
     doneq |-> <<>>, progress |-> 0, total |-> 0]

\* Statuses the API answers with; 429 is the only one the executor retries.
Statuses == {200, 201, 400, 429, 500}

\* Values of the Retry-After header of a 429: absent, integers, an HTTP date.
RetryAfterValues == {None, "5", "0", "Wed, 21 Oct 2015 07:28:00 GMT"}

\* int(retry_after): whether the text is an integer literal (else ValueError),
\* and the integer it denotes.
IsIntText(s) == s \in {"5", "0"}

IntOf(s) ==
    CASE s = "5" -> 5
      [] s = "0" -> 0

\* Response bodies: JSON text carrying a value, text that is not JSON, or
\* bytes that are not UTF-8 text.
JsonDict(v) == [t |-> "dict", v |-> v]
JsonList(v) == [t |-> "list", v |-> v]
Malformed == [t |-> "malformed", v |-> <<>>]
NotUtf8 == [t |-> "binary", v |-> <<>>]
EmptyDict == JsonDict(<<>>)

\* raw_text.decode('utf-8') (lines 52 and 109): UnicodeDecodeError on bytes
\* that are not UTF-8; no handler of the function catches it.
IsUtf8(body) == body.t # "binary"

\* json.loads(raw_text_decoded), with JSONDecodeError replaced by {}.
Decode(body) ==
    IF body.t = "malformed" THEN EmptyDict ELSE body

\* Python truthiness of a decoded JSON value ("if not data").
Truthy(data) == Len(data.v) > 0

Pow2(n) == 2 ^ n

(***************************************************************************)
(* request_with_retries, one logical request.                              *)
(*   pc       "ready"    about to issue session.request (loop head passed) *)
(*            "inflight" request issued, response not yet received         *)
(*            "sleep"    inside asyncio.sleep(delay)                       *)
(*            "done"     returned or raised                                *)
(*   retries  the retry counter                                            *)
(*   attempts number of session.request calls issued                       *)
(*   sleeps   number of asyncio.sleep calls made                           *)
(*   delay    argument of the last asyncio.sleep                           *)
(*   cause    what led to the last sleep: "429" or "conn"                  *)
(*   hdr      Retry-After header of the last 429                           *)
(*   at       value of retries when the last sleep was started             *)
(*   last     outcome of the last attempt                                  *)
(*   lastbody kind of body the last attempt's response carried             *)
(*   only429  every attempt so far was answered with status 429            *)
(*   result   what the caller gets                                         *)
(***************************************************************************)
\* A response object: status, Retry-After and Pagination headers, body.
\* The Pagination header is absent, JSON carrying total_pages_count, JSON
\* without that field, or text that is not JSON.
NoPagination == [t |-> "absent", total_pages_count |-> 0]
Response(status, retry_after, pagination, body) ==
    [kind |-> "response", status |-> status, retry_after |-> retry_after,
     pagination |-> pagination, body |-> body]
TransportError(exc) ==
    [kind |-> exc, status |-> 0, retry_after |-> None,
     pagination |-> NoPagination, body |-> Malformed]
NoResponse == TransportError(None)

NoResult == [kind |-> "none", response |-> NoResponse, data |-> EmptyDict, exc |-> None]
Pair(response, data) == [kind |-> "pair", response |-> response, data |-> data, exc |-> None]
Bare(response) == [kind |-> "bare", response |-> response, data |-> EmptyDict, exc |-> None]
Raise(exc) == [kind |-> "raise", response |-> NoResponse, data |-> EmptyDict, exc |-> exc]

\* The while condition of line 46; falling out of the loop raises (line 81).
LoopHead(c) ==
    IF c.retries <= max_retries
    THEN [c EXCEPT !.pc = "ready"]
    ELSE [c EXCEPT !.pc = "done", !.result = Raise("MaxRetriesExceeded")]

NewCall ==
    LoopHead([pc |-> "ready", retries |-> 0, attempts |-> 0, sleeps |-> 0,
              delay |-> 0, cause |-> None, hdr |-> None, at |-> 0,
              last |-> None, lastbody |-> None, only429 |-> TRUE,
              result |-> NoResult])

\* session.request(method, url, **kwargs) is issued.
SendAttempt(c) ==
    [c EXCEPT !.pc = "inflight", !.attempts = @ + 1]

\* Outcomes of one attempt: a response, or an exception of the transport.
Responses ==
    {Response(st, None, NoPagination, b) :
        st \in Statuses \ {429},
        b \in {JsonList(<<1>>), JsonList(<<>>), JsonDict(<<1>>), Malformed, NotUtf8}}
    \cup {Response(429, ra, NoPagination, Malformed) : ra \in RetryAfterValues}
    \cup {TransportError(e) : e \in {"ClientConnectionError", "TimeoutError"}}

\* A backoff that ignores the server's Retry-After header.
BackoffIgnoringHeader(retry_after, retries) == Pow2(retries)

\* Lines 64-68: the delay after a 429.
BackoffDelay(retry_after, retries) ==
    IF retry_after # None
    THEN IF IsIntText(retry_after)
         THEN IntOf(retry_after)
         ELSE Pow2(retries)
    ELSE Pow2(retries)

\* Lines 76: the delay after a connection error.
ConnDelay(retries) == Pow2(retries)

\* Lines 61 and 74: the retry budget is used up.
Exhausted(retries) == retries >= max_retries

\* Line 62: what is handed back when a 429 exhausts the budget.
GiveUp429(response) == Bare(response)

\* An executor that wraps the connection error in its own exhaustion error.
GiveUpConnWrapped(exc) == Raise("MaxRetriesExceeded")

\* Line 75: what happens when a connection error exhausts the budget.
GiveUpConn(exc) == Raise(exc)

Sleep(c, why, hdr, d) ==
    [c EXCEPT !.pc = "sleep", !.delay = d, !.cause = why, !.hdr = hdr,
              !.at = c.retries, !.sleeps = @ + 1]

\* Lines 48-80: the attempt's outcome r is handled.
ReceiveAttempt(c, r) ==
    LET c1 == [c EXCEPT !.last = IF r.kind = "response" THEN ToString(r.status) ELSE r.kind,
                        !.lastbody = IF r.kind = "response" THEN r.body.t ELSE None,
                        !.only429 = @ /\ r.kind = "response" /\ r.status = 429] IN
    IF r.kind = "response"
    THEN IF r.status # 429
         THEN IF IsUtf8(r.body)
              THEN [c1 EXCEPT !.pc = "done", !.result = Pair(r, Decode(r.body))]
              ELSE [c1 EXCEPT !.pc = "done", !.result = Raise("UnicodeDecodeError")]
         ELSE IF Exhausted(c.retries)
              THEN [c1 EXCEPT !.pc = "done", !.result = GiveUp429(r)]
              ELSE Sleep(c1, "429", r.retry_after, BackoffDelay(r.retry_after, c.retries))
    ELSE IF r.kind = "ClientConnectionError"
         THEN IF Exhausted(c.retries)
              THEN [c1 EXCEPT !.pc = "done", !.result = GiveUpConn(r.kind)]
              ELSE Sleep(c1, "conn", None, ConnDelay(c.retries))
         ELSE [c1 EXCEPT !.pc = "done", !.result = Raise(r.kind)]

\* A retry helper with a counter per cause: only the sleep after a 429 uses
\* up the budget, the sleep after a connection error does not.
WakeUpCounting429Only(c) ==
    LoopHead([c EXCEPT !.retries = IF c.cause = "429" THEN @ + 1 ELSE @])

\* Lines 72 and 80: the sleep returns, retries += 1, back to the loop head.
WakeUp(c) ==
    LoopHead([c EXCEPT !.retries = @ + 1])

(***************************************************************************)
(* Listing traversals: get_all_projects (empty-page termination) and       *)
(* get_all_keys (page-count termination), against a listing of M items     *)
(* numbered 1..M that the server cuts into pages of per_page items.        *)
(*   pc  "loop"     at the head of the while loop                          *)
(*       "call"     get_all_keys: inside request_with_retries (see call)   *)
(*       "inflight" get_all_projects: session.get issued, no response yet  *)
(*       "returned" the function returned items                            *)
(*       "exit1"    sys.exit(1)                                            *)
(*       "raised"   an exception left the function                         *)
(*   items     the items collected so far                                  *)
(*   requested the page numbers asked for, in order                        *)
(*   last      what the page handled last came back with in the end: its   *)
(*             status, or the exception                                    *)
(*   nth       the traversal is the nth one of the process                 *)
(***************************************************************************)
Min(a, b) == IF a < b THEN a ELSE b
Max(a, b) == IF a > b THEN a ELSE b

\* Number of pages of a listing of M items in pages of P: ceil(M / P).
TotalPages(M, P) == (M + P - 1) \div P

\* The items the server puts on page p.
PageItems(M, P, p) ==
    [i \in 1 .. Max(0, Min(P, M - (p - 1) * P)) |-> (p - 1) * P + i]

PaginationHeader(n) == [t |-> "json", total_pages_count |-> n]

\* The server's faithful answer to "page p, per_page P" of a listing of M.
PageResponse(M, P, p) ==
    Response(200, None, PaginationHeader(TotalPages(M, P)), JsonList(PageItems(M, P, p)))

\* What one attempt at a page can come back with.
PageOutcomes(M, P, p) ==
    {PageResponse(M, P, p),
     Response(200, None, NoPagination, Malformed),
     Response(429, None, NoPagination, Malformed),
     Response(500, None, NoPagination, Malformed),
     TransportError("ClientConnectionError")}

NoTraversal ==
    [fn |-> None, M |-> 0, per_page |-> 1, pc |-> "idle", page |-> 1,
     totalPage |-> 1, total_pages |-> 0, items |-> <<>>, requested |-> <<>>,
     clean |-> TRUE, exc |-> None, last |-> None, nth |-> 1]

\* Lines 92-93 and 129-131: the locals at entry.
StartTraversal(fn, M, P) ==
    [NoTraversal EXCEPT !.fn = fn, !.M = M, !.per_page = P, !.pc = "loop"]

\* A traversal that asks for the same page again.
SamePage(page) == page

\* Lines 120 and 161: page += 1.
NextPage(page) == page + 1

\* A traversal that keeps only the page fetched last.
ExtendOverwrites(items, data) == data.v

\* Lines 119 and 160: projects.extend(data), keys.extend(data).
Extend(items, data) == items \o data.v

\* A traversal that answers a failing page with the items it has so far.
ReturnPartial(t) == [t EXCEPT !.pc = "returned"]

\* Lines 100-103 and 142-145: a status other than 200 ends the process.
OnBadStatus(t) == [t EXCEPT !.pc = "exit1"]

\* Lines 100-120: get_all_projects handles the outcome r of session.get.
ProjectsHandle(t, r) ==
    LET t1 == [t EXCEPT !.clean = @ /\ r = PageResponse(t.M, t.per_page, t.page),
                        !.last = IF r.kind = "response" THEN ToString(r.status)
                                 ELSE r.kind] IN
    IF r.kind # "response"
    THEN [t1 EXCEPT !.pc = "raised", !.exc = r.kind]
    ELSE IF r.status # 200
         THEN OnBadStatus(t1)
         ELSE IF ~IsUtf8(r.body)
              THEN [t1 EXCEPT !.pc = "raised", !.exc = "UnicodeDecodeError"]
         ELSE IF r.body.t = "malformed"
              THEN [t1 EXCEPT !.pc = "exit1"]
              ELSE IF ~Truthy(r.body)
                   THEN [t1 EXCEPT !.pc = "returned"]
                   ELSE [t1 EXCEPT !.pc = "loop", !.items = Extend(@, r.body),
                                   !.page = NextPage(@)]

\* Lines 149-156: the Pagination header is read into total_pages.
ReadPagination(t, response) ==
    IF response.pagination.t = "absent"
    THEN t
    ELSE IF response.pagination.t = "malformed"
         THEN [t EXCEPT !.pc = "exit1"]
         ELSE [t EXCEPT !.total_pages = response.pagination.total_pages_count]

\* Lines 140-161: get_all_keys handles what request_with_retries gave it.
KeysHandle(t0, res) ==
    LET t == [t0 EXCEPT !.last = IF res.kind = "raise" THEN res.exc
                                 ELSE ToString(res.response.status)] IN
    IF res.kind = "raise"
    THEN [t EXCEPT !.pc = "raised", !.exc = res.exc]
    ELSE IF res.kind = "bare"
         THEN \* "response, data = <response>": the unpacking raises.
              [t EXCEPT !.pc = "raised", !.exc = "TypeError"]
         ELSE IF res.response.status # 200
              THEN OnBadStatus(t)
              ELSE LET t1 == ReadPagination(t, res.response) IN
                   IF t1.pc = "exit1"
                   THEN t1
                   ELSE IF ~Truthy(res.data)
                        THEN [t1 EXCEPT !.pc = "returned"]
                        ELSE [t1 EXCEPT !.pc = "loop", !.items = Extend(@, res.data),
                                        !.page = NextPage(@)]

\* Line 133: the loop condition of get_all_keys.
KeysContinue(t) == t.totalPage >= t.page

(***************************************************************************)
(* Specification SpecPages: one traversal of either kind.                  *)
(***************************************************************************)
PagesInit ==
    /\ \E fn \in {"projects", "keys"}, M \in 0 .. MaxItems, P \in 1 .. MaxPerPage :
            trav = StartTraversal(fn, M, P)
    /\ call = NewCall
    /\ ncalls = 0
    /\ link = NoLink
    /\ run = NoRun
    /\ prune = NoPrune
    /\ imp = NoImport
    /\ sched = NoSchedule

\* get_all_projects, lines 94-97: the next page is requested.
ProjectsRequest ==
    /\ trav.fn = "projects"
    /\ trav.pc = "loop"
    /\ trav' = [trav EXCEPT !.pc = "inflight", !.requested = Append(@, trav.page)]
    /\ UNCHANGED <<call, ncalls, link, run, prune, imp, sched>>

\* get_all_projects, lines 97-120: the response arrives and is handled.
ProjectsReceive ==
    /\ trav.fn = "projects"
    /\ trav.pc = "inflight"
    /\ \E r \in PageOutcomes(trav.M, trav.per_page, trav.page) \cup {TransportError("TimeoutError")} :
            trav' = ProjectsHandle(trav, r)
    /\ UNCHANGED <<call, ncalls, link, run, prune, imp, sched>>

\* get_all_keys, lines 133-140: loop test, then request_with_retries is entered.
KeysRequest ==
    /\ trav.fn = "keys"
    /\ trav.pc = "loop"
    /\ IF KeysContinue(trav)
       THEN /\ trav' = [trav EXCEPT !.pc = "call", !.requested = Append(@, trav.page)]
            /\ call' = NewCall
            /\ ncalls' = ncalls + 1
            /\ UNCHANGED <<link, run, prune, imp, sched>>
       ELSE /\ trav' = [trav EXCEPT !.pc = "returned"]
            /\ UNCHANGED <<call, ncalls, link, run, prune, imp, sched>>

KeysSend ==
    /\ trav.pc = "call"
    /\ call.pc = "ready"
    /\ call' = SendAttempt(call)
    /\ UNCHANGED <<ncalls, trav, link, run, prune, imp, sched>>

KeysReceive ==
    /\ trav.pc = "call"
    /\ call.pc = "inflight"
    /\ \E r \in PageOutcomes(trav.M, trav.per_page, trav.page) :
            /\ call' = ReceiveAttempt(call, r)
            /\ trav' = [trav EXCEPT !.clean = @ /\ r = PageResponse(trav.M, trav.per_page, trav.page)]
    /\ UNCHANGED <<ncalls, link, run, prune, imp, sched>>

KeysWake ==
    /\ trav.pc = "call"
    /\ call.pc = "sleep"
    /\ call' = WakeUp(call)
    /\ UNCHANGED <<ncalls, trav, link, run, prune, imp, sched>>

\* get_all_keys, lines 140-161: request_with_retries has returned or raised.
KeysReturn ==
    /\ trav.pc = "call"
    /\ call.pc = "done"
    /\ trav' = KeysHandle(trav, call.result)
    /\ UNCHANGED <<call, ncalls, link, run, prune, imp, sched>>

\* main, lines 264 and 291: a traversal has returned and the next one is
\* called, with locals of its own; no request is being executed.
PagesAgain ==
    /\ trav.pc = "returned"
    /\ trav.nth < MaxTraversals
    /\ \E fn \in {"projects", "keys"}, M \in 0 .. MaxItems, P \in 1 .. MaxPerPage :
            trav' = [StartTraversal(fn, M, P) EXCEPT !.nth = trav.nth + 1]
    /\ call' = NewCall
    /\ UNCHANGED <<ncalls, link, run, prune, imp, sched>>

PagesStep ==
    \/ ProjectsRequest \/ ProjectsReceive
    \/ KeysRequest \/ KeysSend \/ KeysReceive \/ KeysWake \/ KeysReturn
    \/ PagesAgain

SpecPages == PagesInit /\ [][PagesStep]_vars

(***************************************************************************)
(* The link-creation scheduler: main lines 279-325 and create_key_link.    *)
(* Every task is a create_key_link coroutine; asyncio runs one task at a   *)
(* time and switches only where a task suspends: waiting for a permit,     *)
(* waiting for the response of an attempt, sleeping in a backoff.          *)
(*   task pc "new"       scheduled by as_completed, not yet run            *)
(*           "waiting"   suspended in semaphore.acquire()                  *)
(*           "granted"   woken up with a permit, not yet resumed           *)
(*           "inflight"  holds a permit, an attempt's request is issued    *)
(*           "sleep"     holds a permit, inside a backoff sleep            *)
(*           "finished"  permit returned, coroutine ended                  *)
(*           "collected" main has awaited it and advanced the progress bar *)
(*           "cancelled" cancelled by asyncio.run after main was left      *)
(*   pc      "dispatch"  main is in the loop of lines 321-323              *)
(*           "closed"    main reached line 325                             *)
(*           "aborted"   an exception of an awaited task left main         *)
(***************************************************************************)
NewTask(parent_key_id, child_key_ids) ==
    [pc |-> "new", retries |-> 0, outcome |-> None,
     parent |-> parent_key_id, children |-> child_key_ids]

\* Lines 281 and 314-320: the semaphore, the tasks, the progress bar.
StartDispatch(N, pairs) ==
    [pc |-> "dispatch", N |-> N, sem |-> N, waiters |-> <<>>,
     task |-> [i \in 1 .. Len(pairs) |-> NewTask(pairs[i].parent, pairs[i].children)],
     doneq |-> <<>>, progress |-> 0, total |-> Len(pairs)]

\* What the API can answer to the POST of one attempt.
ErrorBody == JsonDict(<<"message", "errors">>)
LinkOutcomes ==
    {Response(201, None, NoPagination, JsonDict(<<"children">>)),
     Response(400, None, NoPagination, ErrorBody),
     Response(400, None, NoPagination, JsonDict(<<"message">>)),
     Response(500, None, NoPagination, Malformed),
     Response(429, None, NoPagination, Malformed),
     TransportError("ClientConnectionError"),
     TransportError("TimeoutError")}

\* A semaphore that lets every caller through.
NeverLocked(sem, waiters) == FALSE

\* Line 219, asyncio.Semaphore.locked(): no permit can be taken right now.
Locked(sem, waiters) == sem = 0 \/ waiters # <<>>

\* A semaphore whose permits never come back.
ReleaseKeepsPermit(l) == l

\* Line 219, leaving "async with semaphore": the permit goes to the task
\* waiting longest, or back to the pool.
Release(l) ==
    IF l.waiters # <<>>
    THEN [l EXCEPT !.waiters = Tail(@), !.task[Head(l.waiters)].pc = "granted"]
    ELSE [l EXCEPT !.sem = @ + 1]

\* Lines 222-239: what create_key_link makes of request_with_retries' result.
LinkOutcome(res) ==
    IF res.kind = "raise" THEN "exception"
    ELSE IF res.kind = "bare" THEN "exception"
    ELSE IF res.response.status = 201 THEN "linked"
    ELSE IF ~Truthy(res.data) THEN "failed"
    ELSE IF res.data = ErrorBody THEN "failed"
    ELSE "exception"

\* A create_key_link without the handler of line 236.
NoExceptClause(res) == LinkOutcome(res) # "exception"

\* Line 236: "except Exception" catches whatever request_with_retries
\* raised and whatever lines 221-235 raise on its result.
CaughtByTask(res) == TRUE

\* The retry state of task t as a request_with_retries activation; the
\* attempts issued so far are one per retry, plus the one in flight.
CallOf(t, pc) ==
    [NewCall EXCEPT !.pc = pc, !.retries = t.retries,
                    !.attempts = t.retries + (IF pc = "ready" THEN 0 ELSE 1)]

\* Line 221: the attempt's request goes out.
Issue(t) ==
    LET c == SendAttempt(CallOf(t, "ready")) IN
    [t EXCEPT !.pc = c.pc]

\* Lines 222-239 and the end of "async with": the coroutine ends, its locals
\* are gone, its permit is returned.
Finish(l, i, res) ==
    Release([l EXCEPT !.task[i].pc = "finished",
                      !.task[i].retries = 0,
                      !.task[i].outcome = IF CaughtByTask(res) THEN LinkOutcome(res)
                                          ELSE "raised",
                      !.doneq = Append(@, i)])

\* Lines 219-221: the task takes a permit and issues its first attempt, or
\* suspends in acquire().
Acquire(l, i) ==
    IF Locked(l.sem, l.waiters)
    THEN [l EXCEPT !.waiters = Append(@, i), !.task[i].pc = "waiting"]
    ELSE [l EXCEPT !.sem = @ - 1, !.task[i] = Issue(@)]

\* A task that gives its permit back while it sleeps in a backoff.
ReleaseDuringSleep(l, i) == Release([l EXCEPT !.task[i].pc = "sleep"])

\* Lines 71 and 79 under line 219: the backoff sleep of request_with_retries
\* is inside "async with semaphore", the task keeps its permit.
HoldDuringSleep(l, i) == [l EXCEPT !.task[i].pc = "sleep"]

\* Lines 221-239: the attempt's outcome r reaches task i.
TaskReceive(l, i, r) ==
    LET c == ReceiveAttempt(CallOf(l.task[i], "inflight"), r) IN
    IF c.pc = "sleep"
    THEN HoldDuringSleep(l, i)
    ELSE Finish(l, i, c.result)

\* Lines 71-72, 79-80 and 46-48: the backoff ends, the next attempt goes out.
TaskWake(l, i) ==
    LET c == WakeUp(CallOf(l.task[i], "sleep")) IN
    IF c.pc = "ready"
    THEN [l EXCEPT !.task[i] = Issue([@ EXCEPT !.retries = c.retries])]
    ELSE Finish(l, i, c.result)

Tasks == 1 .. Len(link.task)

LinkStart(i) ==
    /\ link.pc = "dispatch"
    /\ link.task[i].pc = "new"
    /\ link' = Acquire(link, i)
    /\ UNCHANGED <<call, ncalls, trav, run, prune, imp, sched>>

LinkProceed(i) ==
    /\ link.task[i].pc = "granted"
    /\ link' = [link EXCEPT !.task[i] = Issue(@)]
    /\ UNCHANGED <<call, ncalls, trav, run, prune, imp, sched>>

LinkReceive(i) ==
    /\ link.task[i].pc = "inflight"
    /\ \E r \in LinkOutcomes : link' = TaskReceive(link, i, r)
    /\ UNCHANGED <<call, ncalls, trav, run, prune, imp, sched>>

LinkWake(i) ==
    /\ link.task[i].pc = "sleep"
    /\ link' = TaskWake(link, i)
    /\ UNCHANGED <<call, ncalls, trav, run, prune, imp, sched>>

\* Lines 321-323: main awaits the next completed task and updates the bar;
\* awaiting a task that ended with an exception raises it in main, and
\* asyncio.run cancels the tasks still pending.
LinkCollect ==
    /\ link.pc = "dispatch"
    /\ link.doneq # <<>>
    /\ link' = IF link.task[Head(link.doneq)].outcome = "raised"
               THEN [link EXCEPT
                        !.pc = "aborted", !.doneq = <<>>, !.waiters = <<>>,
                        !.task = [i \in DOMAIN link.task |->
                                    IF link.task[i].pc \in {"finished", "collected"}
                                    THEN link.task[i]
                                    ELSE [link.task[i] EXCEPT !.pc = "cancelled"]]]
               ELSE [link EXCEPT !.doneq = Tail(@), !.progress = @ + 1,
                                 !.task[Head(link.doneq)].pc = "collected"]
    /\ UNCHANGED <<call, ncalls, trav, run, prune, imp, sched>>

\* Lines 324-325: every task has been awaited.
LinkClose ==
    /\ link.pc = "dispatch"
    /\ \A i \in Tasks : link.task[i].pc = "collected"
    /\ link' = [link EXCEPT !.pc = "closed"]
    /\ UNCHANGED <<call, ncalls, trav, run, prune, imp, sched>>

LinkStep ==
    \/ \E i \in Tasks : LinkStart(i)
    \/ \E i \in Tasks : LinkProceed(i)
    \/ \E i \in Tasks : LinkReceive(i)
    \/ \E i \in Tasks : LinkWake(i)
    \/ LinkCollect
    \/ LinkClose

(***************************************************************************)
(* Specification SpecLink: the scheduler on W work items with limit N.     *)
(***************************************************************************)
LinkInit ==
    /\ \E N \in 1 .. MaxLimit, W \in 1 .. MaxTasks :
            link = StartDispatch(N, [i \in 1 .. W |-> [parent |-> i, children |-> <<i>>]])
    /\ call = NewCall
    /\ ncalls = 0
    /\ trav = NoTraversal
    /\ run = NoRun
    /\ prune = NoPrune
    /\ imp = NoImport
    /\ sched = NoSchedule

SpecLink == LinkInit /\ [][LinkStep]_vars

\* The same runs with the event loop going on as long as something can
\* happen: a ready task is run, an attempt in flight returns or raises, a
\* sleep ends, main resumes when an awaited task is done.
SpecLinkFair == SpecLink /\ WF_vars(LinkStep)

(***************************************************************************)
(* A key-linking run: main, lines 244-325.                                 *)
(* The server holds the parent project's keys, the child projects' keys    *)
(* and, for every child key, the parent key it is linked to (if any).      *)
(* Before the dispatch main is the only coroutine, so each awaited fetch   *)
(* is one step; its result is what the traversal code above returns when   *)
(* the server answers every page.                                          *)
(***************************************************************************)
\* KeyLinkr.py:87 and :124, the default per_page of both traversals.
per_page == 100
\* KeyLinkr.py:284, the size of a batch of parent keys.
BatchSize == 100

Key(id, name) == [id |-> id, name |-> name]
ParentProject == "parent"

RECURSIVE KeysRun(_)
\* get_all_keys run to its end against a server that answers every page.
KeysRun(t) ==
    IF t.pc # "loop" THEN t
    ELSE IF ~KeysContinue(t) THEN [t EXCEPT !.pc = "returned"]
    ELSE LET r == PageResponse(t.M, t.per_page, t.page) IN
         KeysRun(KeysHandle(t, Pair(r, Decode(r.body))))

RECURSIVE ProjectsRun(_)
\* get_all_projects run to its end against a server that answers every page.
ProjectsRun(t) ==
    IF t.pc # "loop" THEN t
    ELSE ProjectsRun(ProjectsHandle(t, PageResponse(t.M, t.per_page, t.page)))

\* The entries of a listing that a traversal t returned, in its order.
Fetched(listing, t) == [k \in 1 .. Len(t.items) |-> listing[t.items[k]]]

get_all_keys(listing) ==
    Fetched(listing, KeysRun(StartTraversal("keys", Len(listing), per_page)))

get_all_projects(listing) ==
    Fetched(listing, ProjectsRun(StartTraversal("projects", Len(listing), per_page)))

\* Python dicts as insertion-ordered sequences of [key, val].
DictHas(d, k) == \E i \in 1 .. Len(d) : d[i].key = k
DictGet(d, k) == d[CHOOSE i \in 1 .. Len(d) : d[i].key = k].val
DictSet(d, k, v) ==
    IF DictHas(d, k)
    THEN [i \in 1 .. Len(d) |-> IF d[i].key = k THEN [key |-> k, val |-> v] ELSE d[i]]
    ELSE Append(d, [key |-> k, val |-> v])
SeqHas(q, x) == \E i \in 1 .. Len(q) : q[i] = x

\* The project listing of the server: the parent (if the account has it)
\* and the child projects c1, c2, ...
ProjectId(j) == IF j = 1 THEN "c1" ELSE "c2"
ProjectListing(srv) ==
    (IF srv.parent_listed THEN <<ParentProject>> ELSE <<>>)
    \o [j \in 1 .. Len(srv.children) |-> ProjectId(j)]

\* The name without the distinction of case.
Fold(name) == IF name = "A" THEN "a" ELSE name

\* GET /projects/{id}/keys?q=name:n1,n2,...: the keys the search finds for
\* the names listed; the search does not tell upper from lower case.
KeysNamed(keys, names) ==
    LET Hit(k) == \E n \in 1 .. Len(names) : Fold(names[n]) = Fold(k.name)
    IN SelectSeq(keys, Hit)

RECURSIVE Flatten(_)
Flatten(qq) == IF qq = <<>> THEN <<>> ELSE Head(qq) \o Flatten(Tail(qq))

\* Lines 204-205: the ids of the children the server reports for a parent key.
LinkedChildren(srv, parent_key_id) ==
    LET Linked(k) == srv.linked[k.id] = parent_key_id
        kids == SelectSeq(Flatten(srv.children), Linked)
    IN [n \in 1 .. Len(kids) |-> kids[n].id]

\* Line 293: child_key_map.get(name); a later key of the same name wins.
ChildKeyMapGet(child_keys, name) ==
    LET hits == {i \in 1 .. Len(child_keys) : child_keys[i].name = name} IN
    IF hits = {} THEN None
    ELSE child_keys[CHOOSE i \in hits : \A h \in hits : h <= i].id

\* A reconciler that schedules every name match, linked or not.
NeverLinked(linked_keys_dict, parent_key_id, child_key_id) == FALSE

\* Lines 304-307: the child key is linked to this parent key, or to any.
AlreadyLinked(linked_keys_dict, parent_key_id, child_key_id) ==
    \/ /\ DictHas(linked_keys_dict, parent_key_id)
       /\ SeqHas(DictGet(linked_keys_dict, parent_key_id), child_key_id)
    \/ \E i \in 1 .. Len(linked_keys_dict) : SeqHas(linked_keys_dict[i].val, child_key_id)

\* Lines 296-312: one parent key of the batch against one child project.
DiffKey(key_links_map, parent_key, child_keys, linked_keys_dict) ==
    IF parent_key.id = None \/ parent_key.name = None
    THEN key_links_map
    ELSE LET child_key_id == ChildKeyMapGet(child_keys, parent_key.name) IN
         IF child_key_id = None
         THEN key_links_map
         ELSE IF AlreadyLinked(linked_keys_dict, parent_key.id, child_key_id)
              THEN key_links_map
              ELSE DictSet(key_links_map, parent_key.id,
                           Append(IF DictHas(key_links_map, parent_key.id)
                                  THEN DictGet(key_links_map, parent_key.id)
                                  ELSE <<>>, child_key_id))

RECURSIVE DiffBatch(_, _, _, _)
\* Lines 292-312: the whole batch against the keys fetched from one child.
DiffBatch(key_links_map, batch, child_keys, linked_keys_dict) ==
    IF batch = <<>> \/ child_keys = <<>>
    THEN key_links_map
    ELSE DiffBatch(DiffKey(key_links_map, Head(batch), child_keys, linked_keys_dict),
                   Tail(batch), child_keys, linked_keys_dict)

\* Lines 285-287: the batch starting at offset b and the names it asks for.
Batch(parent_keys, b) == SubSeq(parent_keys, b + 1, Min(b + BatchSize, Len(parent_keys)))
BatchNames(batch) ==
    LET Named(k) == k.name # None
        named == SelectSeq(batch, Named)
    IN [n \in 1 .. Len(named) |-> named[n].name]

\* The servers the runs are checked against: two parent keys, one or two
\* child projects with keys x1 ("a"), x2 ("b"), x3 ("a"), any links; and a
\* parent project of per_page + 1 keys, the last of them named as x1 is.
KeyIds(keys) == {keys[n].id : n \in 1 .. Len(keys)}
Servers ==
    {[parent_listed |-> pl, parents |-> <<Key("p1", n1), Key("p2", n2)>>,
      children |-> ch, linked |-> ln] :
        pl \in BOOLEAN, n1 \in {"a", "b", "A"}, n2 \in {"a", "b", None},
        ch \in {<<c1>> : c1 \in {<<Key("x1", "a")>>, <<Key("x1", "a"), Key("x2", "b")>>}}
               \cup {<<c1, <<Key("x3", "a")>> >> :
                        c1 \in {<<Key("x1", "a")>>, <<Key("x1", "a"), Key("x2", "b")>>}},
        ln \in [{"x1", "x2", "x3"} -> {None, "p1", "p2"}]}
    \cup
    {[parent_listed |-> TRUE,
      parents |-> [i \in 1 .. per_page |-> Key("q" \o ToString(i), "z" \o ToString(i))]
                  \o <<Key("p1", "a")>>,
      children |-> << <<Key("x1", "a")>> >>,
      linked |-> [x \in {"x1", "x2", "x3"} |-> None]]}

StartRun(srv, N) ==
    [pc |-> "fetch_projects", srv |-> srv, N |-> N, projects |-> <<>>,
     parent_keys |-> <<>>, linked_keys_dict |-> <<>>, i |-> 1, b |-> 0, j |-> 1,
     key_links_map |-> <<>>, failed |-> None, fetches |-> 0]

\* One more listing or fetch (get_all_projects, get_all_keys,
\* get_linked_child_keys) has been called and has ended.
Fetch(r) == [r EXCEPT !.fetches = @ + 1]

\* A main that goes back to its batches after it has created the tasks.
BackToBatches(r) == [r EXCEPT !.b = 0, !.j = 1]

\* Lines 314-320: the loops of lines 284-312 are over, main goes on to
\* create and await the tasks and calls no listing or fetch any more.
EnterDispatch(r) == [r EXCEPT !.pc = "dispatch"]

\* Line 276: the child projects.
ChildProjects(projects) ==
    LET NotParent(id) == id # ParentProject IN SelectSeq(projects, NotParent)

\* The keys of the child project with the given id.
ChildListing(srv, id) == srv.children[CHOOSE j \in 1 .. Len(srv.children) : ProjectId(j) = id]

\* Lines 248-260: projects are listed, the parent must be among them.
MainFetchProjects ==
    /\ run.pc = "fetch_projects"
    /\ \E ok \in BOOLEAN :
        LET projects == get_all_projects(ProjectListing(run.srv)) IN
        run' = IF ~ok \/ projects = <<>> \/ ~SeqHas(projects, ParentProject)
               THEN [Fetch(run) EXCEPT !.pc = "exit1", !.failed = "projects"]
               ELSE [Fetch(run) EXCEPT !.pc = "fetch_parent_keys", !.projects = projects]
    /\ UNCHANGED <<call, ncalls, trav, link, prune, imp, sched>>

\* Lines 262-266: the parent project's keys are fetched.
MainFetchParentKeys ==
    /\ run.pc = "fetch_parent_keys"
    /\ \E ok \in BOOLEAN :
        run' = IF ~ok
               THEN [Fetch(run) EXCEPT !.pc = "exit1", !.failed = "parent_keys"]
               ELSE LET keys == get_all_keys(run.srv.parents) IN
                    [Fetch(run) EXCEPT !.parent_keys = keys, !.i = 1,
                                !.pc = IF keys = <<>> THEN "diff" ELSE "fetch_links"]
    /\ UNCHANGED <<call, ncalls, trav, link, prune, imp, sched>>

\* Lines 267-271 with get_linked_child_keys: the links of parent key i.
MainFetchLinks ==
    /\ run.pc = "fetch_links"
    /\ LET parent_key_id == run.parent_keys[run.i].id
           children == LinkedChildren(run.srv, parent_key_id)
           next == IF run.i = Len(run.parent_keys) THEN "diff" ELSE "fetch_links"
       IN \E status \in {200, 500} \cup (IF children = <<>> THEN {400} ELSE {}) :
            run' = IF status \notin {200, 400}
                   THEN [Fetch(run) EXCEPT !.pc = "exit1", !.failed = "links"]
                   ELSE LET linked_keys == IF status = 400 THEN <<>> ELSE children IN
                        [Fetch(run) EXCEPT !.pc = next, !.i = @ + 1,
                                    !.linked_keys_dict =
                                        IF linked_keys # <<>>
                                        THEN DictSet(@, parent_key_id, linked_keys)
                                        ELSE @]
    /\ UNCHANGED <<call, ncalls, trav, link, prune, imp, sched>>

\* Lines 284-312: the keys of child project j that match batch b are
\* fetched and diffed; past the last batch the tasks are created
\* (lines 314-320).
MainDiff ==
    /\ run.pc = "diff"
    /\ LET child_projects == ChildProjects(run.projects) IN
       IF run.b >= Len(run.parent_keys) \/ child_projects = <<>>
       THEN /\ run' = EnterDispatch(run)
            /\ link' = StartDispatch(run.N,
                          [n \in 1 .. Len(run.key_links_map) |->
                              [parent |-> run.key_links_map[n].key,
                               children |-> run.key_links_map[n].val]])
       ELSE /\ \E ok \in BOOLEAN :
                LET batch == Batch(run.parent_keys, run.b)
                    listing == ChildListing(run.srv, child_projects[run.j])
                    child_keys == get_all_keys(KeysNamed(listing, BatchNames(batch)))
                    last == run.j = Len(child_projects)
                IN run' = IF ~ok
                          THEN [Fetch(run) EXCEPT !.pc = "exit1", !.failed = "child_keys"]
                          ELSE [Fetch(run) EXCEPT
                                  !.key_links_map = DiffBatch(@, batch, child_keys, run.linked_keys_dict),
                                  !.j = IF last THEN 1 ELSE @ + 1,
                                  !.b = IF last THEN @ + BatchSize ELSE @]
            /\ UNCHANGED link
    /\ UNCHANGED <<call, ncalls, trav, prune, imp, sched>>

(***************************************************************************)
(* Specification SpecMain: a whole key-linking run.                        *)
(***************************************************************************)
MainInit ==
    /\ \E srv \in Servers, N \in 1 .. MaxLimit :
            /\ \A k \in DOMAIN srv.linked :
                   k \notin KeyIds(Flatten(srv.children)) => srv.linked[k] = None
            /\ run = StartRun(srv, N)
    /\ link = NoLink
    /\ call = NewCall
    /\ ncalls = 0
    /\ trav = NoTraversal
    /\ prune = NoPrune
    /\ imp = NoImport
    /\ sched = NoSchedule

MainStep ==
    \/ MainFetchProjects
    \/ MainFetchParentKeys
    \/ MainFetchLinks
    \/ MainDiff
    \/ \E i \in Tasks : LinkStart(i)
    \/ \E i \in Tasks : LinkProceed(i)
    \/ \E i \in Tasks : LinkReceive(i)
    \/ \E i \in Tasks : LinkWake(i)
    \/ LinkCollect
    \/ LinkClose

SpecMain == MainInit /\ [][MainStep]_vars

(***************************************************************************)
(* remove_excess_users (remove_excess_users.py lines 47-77; the copy in    *)
(* KeyLinkr.py lines 653-684 is the same code).                            *)
(* A user record of the API: id (has_id says whether the key is there),    *)
(* created_at text in the format %Y-%m-%dT%H:%M:%SZ (stamp says whether    *)
(* the key is there and whether the text has that format).  Times are      *)
(* whole seconds counted from filter_timestamp, so parsing a well-formed   *)
(* text gives a number that is positive exactly for later instants.        *)
(***************************************************************************)
\* remove_excess_users.py:8
USER_LIMIT == 150
\* remove_excess_users.py:9 (filter_timestamp, the origin of the time scale)
Cutoff == 0

User(id, has_id, stamp, created_at) ==
    [id |-> id, has_id |-> has_id, stamp |-> stamp, created_at |-> created_at]

\* datetime.strptime(u['created_at'], ...): the instant the text denotes.
strptime(u) == u.created_at

\* A filter that keeps every user, whatever its creation time.
KeepsEveryone(t, filter_timestamp) == TRUE

\* Line 62: strptime(...) > filter_timestamp.
AfterCutoff(t, filter_timestamp) == t > filter_timestamp

\* Line 62: the first user whose created_at cannot be read stops the
\* comprehension: KeyError when the key is missing, ValueError when the text
\* has another format.
FirstUnreadable(users) ==
    LET bad == {i \in 1 .. Len(users) : users[i].stamp # "ok"} IN
    IF bad = {} THEN 0 ELSE CHOOSE i \in bad : \A b \in bad : i <= b

\* Line 62: the users created after filter_timestamp, in listing order.
FilterUsers(users, filter_timestamp) ==
    LET Keep(u) == AfterCutoff(strptime(u), filter_timestamp) IN SelectSeq(users, Keep)

\* Line 63: list.sort(key=created_at, reverse=True), which is stable: newest
\* first, users of equal time in their listing order.
SortNewestFirst(users) ==
    LET n == Len(users)
        Before(i) == {j \in 1 .. n :
                        \/ strptime(users[j]) > strptime(users[i])
                        \/ strptime(users[j]) = strptime(users[i]) /\ j < i}
        place == {<<Cardinality(Before(i)) + 1, i>> : i \in 1 .. n}
    IN [r \in 1 .. n |-> users[CHOOSE i \in 1 .. n : <<r, i>> \in place]]

\* Lines 68-71: users[:excess_user_count] when the count is positive.
ExcessUsers(users) ==
    LET excess_user_count == Len(users) - USER_LIMIT IN
    IF excess_user_count > 0 THEN SubSeq(users, 1, excess_user_count) ELSE <<>>

\* The user listings the runs are checked against: a body of users that are
\* all newer than the cutoff, or all older, one creation time each, listed
\* oldest first; before it up to two further users of these kinds.
ExtraKinds == {"old", "edge", "mid", "tie", "newest", "nostamp", "badstamp", "noid"}
Body(kind, n) ==
    [i \in 1 .. n |-> User(i, TRUE, "ok", IF kind = "new" THEN Cutoff + 10 * i
                                              ELSE Cutoff - 10 * (n + 1 - i))]
Extra(kind, id, n) ==
    CASE kind = "old" -> User(id, TRUE, "ok", Cutoff - 5)
      [] kind = "edge" -> User(id, TRUE, "ok", Cutoff)
      [] kind = "mid" -> User(id, TRUE, "ok", Cutoff + 15)
      [] kind = "tie" -> User(id, TRUE, "ok", Cutoff + 10 * n)
      [] kind = "newest" -> User(id, TRUE, "ok", Cutoff + 10 * n + 5)
      [] kind = "nostamp" -> User(id, TRUE, "missing", Cutoff)
      [] kind = "badstamp" -> User(id, TRUE, "malformed", Cutoff)
      [] kind = "noid" -> User(id, FALSE, "ok", Cutoff + 10 * n + 7)
BodySizes == {0} \cup ((USER_LIMIT - 1) .. (USER_LIMIT + MaxExcess))
Shapes ==
    [kind : {"new", "old"}, n : BodySizes,
     extras : (ExtraKinds \cup {"none"}) \X (ExtraKinds \cup {"none"})]
NoShape == [kind |-> "new", n |-> 0, extras |-> <<"none", "none">>]
ListingOf(shape) ==
    LET extras == SelectSeq(shape.extras, LAMBDA e : e # "none") IN
    [i \in 1 .. Len(extras) |-> Extra(extras[i], shape.n + i, shape.n)]
        \o Body(shape.kind, shape.n)

\* What one HTTP call of the script comes back with: a status, or an
\* exception of the requests library (nothing in the script catches it).
GetStatuses == {"200", "500", "ConnectionError"}
DeleteStatuses == {"204", "404", "ConnectionError"}

\* One HTTP call of the script: the method, the user it names (0 for the
\* listing of the users), and how it ended.
HttpCall(method, id, status) == [method |-> method, id |-> id, status |-> status]

StartPrune(nprojects) ==
    [pc |-> "start", remaining |-> nprojects, shape |-> NoShape, fetched |-> FALSE,
     selected |-> <<>>, k |-> 0, calls |-> <<>>]

\* Lines 56-70: what the script does with the users got for a project.
ProcessUsers(pr, users) ==
    IF users = <<>>
    THEN [pr EXCEPT !.pc = "project_done"]
    ELSE LET bad == FirstUnreadable(users) IN
         IF bad # 0 /\ users[bad].stamp = "missing"
         THEN [pr EXCEPT !.pc = "project_done"]
         ELSE IF bad # 0
              THEN [pr EXCEPT !.pc = "crashed"]
              ELSE LET selected == ExcessUsers(SortNewestFirst(FilterUsers(users, Cutoff)))
                   IN [pr EXCEPT !.selected = selected, !.k = 1,
                                 !.pc = IF selected = <<>> THEN "project_done"
                                        ELSE "removing"]

\* Lines 49-52: the projects are listed.
PruneGetProjects ==
    /\ prune.pc = "start"
    /\ \E status \in GetStatuses :
        prune' = IF status = "ConnectionError"
                 THEN [prune EXCEPT !.pc = "crashed"]
                 ELSE IF status # "200" \/ prune.remaining = 0
                      THEN [prune EXCEPT !.pc = "done"]
                      ELSE [prune EXCEPT !.pc = "project"]
    /\ UNCHANGED <<call, ncalls, trav, link, run, imp, sched>>

\* Lines 54-70: the users of the next project are fetched, filtered, sorted.
PruneGetUsers ==
    /\ prune.pc = "project"
    /\ \E status \in GetStatuses :
        LET sent == [prune EXCEPT !.calls = Append(@, HttpCall("GET", 0, status))] IN
        IF status = "ConnectionError"
        THEN prune' = [sent EXCEPT !.pc = "crashed"]
        ELSE IF status # "200"
             THEN prune' = ProcessUsers(sent, <<>>)
             ELSE \E shape \in Shapes :
                    prune' = ProcessUsers([sent EXCEPT !.shape = shape, !.fetched = TRUE],
                                          ListingOf(shape))
    /\ UNCHANGED <<call, ncalls, trav, link, run, imp, sched>>

\* Lines 71-75: the next selected user is removed; a user without id is
\* reported and skipped.
PruneRemove ==
    /\ prune.pc = "removing"
    /\ LET user == prune.selected[prune.k]
           next == IF prune.k = Len(prune.selected) THEN "project_done" ELSE "removing"
       IN IF ~user.has_id
          THEN prune' = [prune EXCEPT !.k = @ + 1, !.pc = next]
          ELSE \E status \in DeleteStatuses :
                LET sent == [prune EXCEPT !.calls = Append(@, HttpCall("DELETE", user.id, status))]
                IN prune' = IF status = "ConnectionError"
                            THEN [sent EXCEPT !.pc = "crashed"]
                            ELSE [sent EXCEPT !.k = @ + 1, !.pc = next]
    /\ UNCHANGED <<call, ncalls, trav, link, run, imp, sched>>

\* Line 54: the loop goes on to the next project, or ends.
PruneNextProject ==
    /\ prune.pc = "project_done"
    /\ prune' = [StartPrune(prune.remaining - 1) EXCEPT
                    !.pc = IF prune.remaining = 1 THEN "done" ELSE "project"]
    /\ UNCHANGED <<call, ncalls, trav, link, run, imp, sched>>

PruneStep == PruneGetProjects \/ PruneGetUsers \/ PruneRemove \/ PruneNextProject

(***************************************************************************)
(* Specification SpecPrune: one run of remove_excess_users.                *)
(***************************************************************************)
PruneInit ==
    /\ \E n \in 0 .. MaxProjects : prune = StartPrune(n)
    /\ call = NewCall
    /\ ncalls = 0
    /\ trav = NoTraversal
    /\ link = NoLink
    /\ run = NoRun
    /\ imp = NoImport
    /\ sched = NoSchedule

SpecPrune == PruneInit /\ [][PruneStep]_vars

(***************************************************************************)
(* The loop of remove_excess_users.py lines 79-91, which decides when the  *)
(* cleanup runs.  Times are whole hours counted from START_DATE; the loop  *)
(* reads the clock once per turn and a cleanup takes less than an hour.    *)
(*   pc       "check" at line 85, "sleep" in time.sleep(3600), "crashed"   *)
(*            when an exception of the cleanup ended the process           *)
(*   now      the time                                                     *)
(*   next_run the variable of that name                                    *)
(*   runs     cleanups started so far                                      *)
(*   last_run when the last one started                                    *)
(*   gap      time between the starts of the last two                      *)
(***************************************************************************)
\* remove_excess_users.py:9, the origin of the hours.
START_DATE == 0
\* remove_excess_users.py:10, timedelta(weeks=1) in hours.
RUN_INTERVAL == 168
\* remove_excess_users.py:91, time.sleep(3600) in hours.
SleepHours == 1
\* The process is started on a whole day, up to MaxWeeks weeks after
\* START_DATE, and watched until MaxWeeks + 1 weeks after START_DATE.
MaxWeeks == 2
StartTimes == {START_DATE + 24 * d : d \in 0 .. 7 * MaxWeeks}
Horizon == START_DATE + (MaxWeeks + 1) * RUN_INTERVAL

\* What remove_excess_users ends with: it returns, or an exception of the
\* requests library leaves it (nothing in lines 84-91 catches it).
CleanupOutcomes == {"returned", "ConnectionError"}

\* Lines 80-82.
StartSchedule(now) ==
    [pc |-> "check", now |-> now, next_run |-> START_DATE, runs |-> 0,
     last_run |-> START_DATE, gap |-> 0]

\* Line 90: next_run += RUN_INTERVAL.
NextRun(next_run) == next_run + RUN_INTERVAL

\* Line 86.
Due(current_time, next_run) == current_time >= next_run

\* Lines 85-90: the clock is read; if the run is due the cleanup is made
\* and next_run moves on; then the loop goes to sleep.
SchedCheck ==
    /\ sched.pc = "check"
    /\ IF Due(sched.now, sched.next_run)
       THEN \E outcome \in CleanupOutcomes :
                LET ran == [sched EXCEPT !.runs = @ + 1, !.last_run = sched.now,
                                         !.gap = sched.now - sched.last_run]
                IN sched' = IF outcome = "returned"
                            THEN [ran EXCEPT !.pc = "sleep",
                                             !.next_run = NextRun(@)]
                            ELSE [ran EXCEPT !.pc = "crashed"]
       ELSE sched' = [sched EXCEPT !.pc = "sleep"]
    /\ UNCHANGED <<call, ncalls, trav, link, run, prune, imp>>

\* Line 91: an hour passes.
SchedSleep ==
    /\ sched.pc = "sleep"
    /\ sched.now + SleepHours <= Horizon
    /\ sched' = [sched EXCEPT !.pc = "check", !.now = @ + SleepHours]
    /\ UNCHANGED <<call, ncalls, trav, link, run, prune, imp>>

SchedStep == SchedCheck \/ SchedSleep

(***************************************************************************)
(* Specification SpecSchedule: the process from its start.                 *)
(***************************************************************************)
SchedInit ==
    /\ \E now \in StartTimes : sched = StartSchedule(now)
    /\ call = NewCall
    /\ ncalls = 0
    /\ trav = NoTraversal
    /\ link = NoLink
    /\ run = NoRun
    /\ prune = NoPrune
    /\ imp = NoImport

SpecSchedule == SchedInit /\ [][SchedStep]_vars

(***************************************************************************)
(* The bulk import tool: process_csv, validate_row,                        *)
(* PhraseTMSClient.create_entity and the row loop of bulk_import.          *)
(***************************************************************************)
\* Lines 26-31.
CSV_FIELDS ==
    [domain |-> <<"name", "timezone">>,
     subdomain |-> <<"name", "parent_domain_id">>,
     client |-> <<"name">>,
     business_unit |-> <<"name", "client_id">>]

\* A row as csv.DictReader gives it: the text of each column; None is the
\* value DictReader gives the columns a short line does not reach.
RawRow(type, name, timezone, parent_domain_id, client_id) ==
    [type |-> type, name |-> name, timezone |-> timezone,
     parent_domain_id |-> parent_domain_id, client_id |-> client_id]
Columns == {"type", "name", "timezone", "parent_domain_id", "client_id"}
RawRows ==
    {RawRow("domain", "a", "UTC", "", ""),
     RawRow("Domain ", "a", " ", "", ""),
     RawRow("subdomain", "a", "", "7", ""),
     RawRow("CLIENT", " a", "", "", ""),
     RawRow("client", "", "", "", ""),
     RawRow("business_unit", "a", "", "", ""),
     RawRow("", "a", "", "", ""),
     RawRow("project", "a", "", "", ""),
     RawRow("client", "a", None, None, None),
     RawRow("client", None, None, None, None)}
NoRow == RawRow("", "", "", "", "")

\* str.strip and str.lower on the texts of RawRows.
strip(v) ==
    CASE v = " " -> ""
      [] v = " a" -> "a"
      [] v = "Domain " -> "Domain"
      [] OTHER -> v
lower(v) ==
    CASE v = "Domain" -> "domain"
      [] v = "CLIENT" -> "client"
      [] v = "UTC" -> "utc"
      [] OTHER -> v

\* Line 125: every value is stripped; a None value has no strip and the
\* generator raises AttributeError.
process_csv(raw) ==
    IF \E c \in Columns : raw[c] = None
    THEN Raise("AttributeError")
    ELSE [kind |-> "row", row |-> [c \in Columns |-> strip(raw[c])]]

\* Lines 102-109: not row.get(field) is true of the empty text.
validate_row(entity_type, row) ==
    \A k \in 1 .. Len(CSV_FIELDS[entity_type]) : row[CSV_FIELDS[entity_type][k]] # ""

\* What one POST of session.post (lines 87-92) is answered with: a response
\* (retry_after says whether it carries a Retry-After header), or an
\* exception of the requests library.  The body is a JSON object with
\* members, the object {"status": "conflict"}, the empty object, a JSON
\* list, or no JSON at all.
PostStatuses == {200, 201, 400, 409, 429, 503}
Bodies == {"dict", "conflict", "empty", "list", "text"}
PostAnswers ==
    {a \in [kind : {"response"}, status : PostStatuses, body : Bodies,
            exc : {None}, retry_after : BOOLEAN] :
        /\ a.retry_after => a.status \in {429, 503}
        /\ a.status \in {429, 503} => a.body = "text"}
    \cup [kind : {"exception"}, status : {0}, body : {"text"},
          exc : {"ConnectionError", "ReadTimeout"}, retry_after : {FALSE}]
NoAnswer ==
    [kind |-> "none", status |-> 0, body |-> "text", exc |-> None,
     retry_after |-> FALSE]
RetryError ==
    [kind |-> "exception", status |-> 0, body |-> "text", exc |-> "RetryError",
     retry_after |-> FALSE]

\* Line 23.
MAX_RETRIES == 3
\* Line 52.
status_forcelist == {500, 502, 503, 504}
\* The statuses on which urllib3's Retry, built as in lines 49-54 with its
\* default respect_retry_after_header, honours a Retry-After header.
RETRY_AFTER_STATUS_CODES == {413, 429, 503}

\* An adapter that retries every 429, with or without Retry-After.
RetriesEvery429(answer, left) ==
    /\ answer.kind = "response"
    /\ \/ answer.status \in status_forcelist
       \/ answer.status = 429

\* Lines 49-55, Retry.is_retry for a POST with left retries remaining: the
\* status is in status_forcelist, or retries remain and the response has a
\* Retry-After header and one of the statuses that header is honoured on.
is_retry(answer, left) ==
    /\ answer.kind = "response"
    /\ \/ answer.status \in status_forcelist
       \/ /\ left > 0
          /\ answer.retry_after
          /\ answer.status \in RETRY_AFTER_STATUS_CODES

\* Lines 49-55 and 87-92: what the adapter does with the answer to a POST
\* after tries retries: "retry" (after a backoff sleep), or session.post
\* ends with the answer, or with RetryError when a status of
\* status_forcelist has used up the retries.
Adapter(answer, tries) ==
    IF is_retry(answer, MAX_RETRIES - tries)
    THEN IF tries < MAX_RETRIES
         THEN [kind |-> "retry", answer |-> answer]
         ELSE [kind |-> "final", answer |-> RetryError]
    ELSE [kind |-> "final", answer |-> answer]

\* create_entity without line 94: a 409 reaches raise_for_status.
CreateEntityRaisesOnConflict(answer) ==
    IF answer.kind = "exception" THEN Raise(answer.exc)
    ELSE IF answer.status >= 400 THEN Raise("HTTPError")
    ELSE IF answer.body = "text" THEN Raise("JSONDecodeError")
    ELSE [kind |-> "result", result |-> answer.body]

\* Lines 87-99: the result of create_entity, or the exception it raises.
create_entity(answer) ==
    IF answer.kind = "exception" THEN Raise(answer.exc)
    ELSE IF answer.status = 409 THEN [kind |-> "result", result |-> "conflict"]
    ELSE IF answer.status >= 400 THEN Raise("HTTPError")
    ELSE IF answer.body = "text" THEN Raise("JSONDecodeError")
    ELSE [kind |-> "result", result |-> answer.body]

\* Lines 159-169: the counter the row goes to.  A list has no get, which
\* raises AttributeError; the empty object is falsy.
Classify(created) ==
    IF created.kind # "result" THEN "errors"
    ELSE CASE created.result = "list" -> "errors"
           [] created.result = "conflict" -> "skipped"
           [] created.result = "dict" -> "success"
           [] created.result = "empty" -> "skipped"

Count(stats, counter) == [stats EXCEPT ![counter] = @ + 1]

\* What the login of PhraseTMSClient.__init__ (lines 59-71) and the opening
\* of the file by count_csv_rows (lines 112-117) end with.
LoginOutcomes == {"ok", "HTTPError", "ConnectionError"}
OpenOutcomes == {"ok", "FileNotFoundError"}

\* The state of a run: remaining rows of the file, the counters, the
\* progress bar; answer is what the last POST was answered with, tries the
\* retries the adapter has made for the current create call; nread rows
\* were yielded by process_csv, raw is the last of them; posts create calls
\* were made; emitted says whether lines 182-185 logged the statistics; exc
\* is the exception that left bulk_import; code is the exit status once pc
\* is "exit"; total is total_rows of line 133.
StartImport(nrows, dry_run) ==
    [pc |-> "login", remaining |-> nrows, total |-> nrows, dry_run |-> dry_run,
     stats |-> [success |-> 0, errors |-> 0, skipped |-> 0], pbar |-> 0,
     entity_type |-> "", answer |-> NoAnswer, tries |-> 0, exc |-> None,
     nread |-> 0, raw |-> NoRow, posts |-> 0, emitted |-> FALSE, code |-> 0]

\* A run that issues its create calls whether or not --dry-run was given.
NeverSkipsCalls(dry_run) == FALSE

\* Line 154: a dry run counts the row and skips the create call.
SkipsCalls(dry_run) == dry_run

\* Lines 171-180 after a row: the progress bar moves on and the loop takes
\* the next row.
NextRow(im, counter) ==
    [im EXCEPT !.stats = Count(@, counter), !.pbar = @ + 1, !.remaining = @ - 1,
               !.pc = "row", !.entity_type = "", !.tries = 0]

\* Line 130: the client is built, which logs in; a refused login raises.
ImportLogin ==
    /\ imp.pc = "login"
    /\ \E outcome \in LoginOutcomes :
        imp' = IF outcome = "ok"
               THEN [imp EXCEPT !.pc = "count"]
               ELSE [imp EXCEPT !.pc = "raised", !.exc = outcome]
    /\ UNCHANGED <<call, ncalls, trav, link, run, prune, sched>>

\* Line 133: the rows of the file are counted; an unreadable file raises.
ImportCount ==
    /\ imp.pc = "count"
    /\ \E outcome \in OpenOutcomes :
        imp' = IF outcome = "ok"
               THEN [imp EXCEPT !.pc = "row"]
               ELSE [imp EXCEPT !.pc = "raised", !.exc = outcome]
    /\ UNCHANGED <<call, ncalls, trav, link, run, prune, sched>>

\* Lines 142-156: the next row is read and checked; a valid row of a real
\* run goes on to create_entity.  An exception of process_csv is raised by
\* the for statement, outside the try of line 143.
ImportRow ==
    /\ imp.pc = "row"
    /\ imp.remaining > 0
    /\ \E raw \in RawRows :
        LET read == process_csv(raw)
            im == [imp EXCEPT !.nread = @ + 1, !.raw = raw]
        IN
        IF read.kind # "row"
        THEN imp' = [im EXCEPT !.pc = "raised", !.exc = read.exc]
        ELSE LET entity_type == lower(read.row.type) IN
             IF entity_type = "" \/ entity_type \notin DOMAIN CSV_FIELDS
             THEN imp' = NextRow(im, "errors")
             ELSE IF ~validate_row(entity_type, read.row)
                  THEN imp' = NextRow(im, "errors")
                  ELSE IF SkipsCalls(imp.dry_run)
                       THEN imp' = NextRow(im, "success")
                       ELSE imp' = [im EXCEPT !.pc = "creating",
                                              !.entity_type = entity_type]
    /\ UNCHANGED <<call, ncalls, trav, link, run, prune, sched>>

\* Lines 158-178: a POST of the create call is answered; the adapter
\* retries it, or create_entity ends and the row is counted.
ImportCreate ==
    /\ imp.pc = "creating"
    /\ \E answer \in PostAnswers :
        LET did == Adapter(answer, imp.tries) IN
        imp' = IF did.kind = "retry"
               THEN [imp EXCEPT !.answer = answer, !.tries = @ + 1]
               ELSE NextRow([imp EXCEPT !.answer = answer, !.posts = @ + 1],
                            Classify(create_entity(did.answer)))
    /\ UNCHANGED <<call, ncalls, trav, link, run, prune, sched>>

\* Lines 182-185: the rows are used up and the statistics are logged.
ImportFinish ==
    /\ imp.pc = "row"
    /\ imp.remaining = 0
    /\ imp' = [imp EXCEPT !.pc = "done", !.emitted = TRUE]
    /\ UNCHANGED <<call, ncalls, trav, link, run, prune, sched>>

\* Ctrl-C while bulk_import runs: KeyboardInterrupt is not an Exception, so
\* line 166 does not catch it; inside the try of a row the finally of lines
\* 171-178 moves the bar, then the interrupt leaves bulk_import.
ImportInterrupt ==
    /\ imp.pc \in {"login", "count", "row", "creating"}
    /\ imp' = [imp EXCEPT !.pc = "raised", !.exc = "KeyboardInterrupt",
                          !.pbar = IF imp.pc = "creating" THEN @ + 1 ELSE @]
    /\ UNCHANGED <<call, ncalls, trav, link, run, prune, sched>>

\* Lines 196-206: __main__ logs what left bulk_import, if anything, and the
\* interpreter exits at the end of the script, with status 0.
ImportExit ==
    /\ imp.pc \in {"done", "raised"}
    /\ imp' = [imp EXCEPT !.pc = "exit", !.code = 0]
    /\ UNCHANGED <<call, ncalls, trav, link, run, prune, sched>>

ImportStep ==
    \/ ImportLogin
    \/ ImportCount
    \/ ImportRow
    \/ ImportCreate
    \/ ImportFinish
    \/ ImportInterrupt
    \/ ImportExit

(***************************************************************************)
(* Specification SpecImport: one run of the import tool.                   *)
(***************************************************************************)
ImportInit ==
    /\ \E n \in 0 .. MaxRows, dry_run \in BOOLEAN : imp = StartImport(n, dry_run)
    /\ call = NewCall
    /\ ncalls = 0
    /\ trav = NoTraversal
    /\ link = NoLink
    /\ run = NoRun
    /\ prune = NoPrune
    /\ sched = NoSchedule

SpecImport == ImportInit /\ [][ImportStep]_vars

(***************************************************************************)
(* Specification SpecRetry: logical requests through request_with_retries, *)
(* one after the other, against a server that answers each attempt freely. *)
(***************************************************************************)
RetryInit ==
    /\ call = NewCall
    /\ ncalls = 1
    /\ trav = NoTraversal
    /\ link = NoLink
    /\ run = NoRun
    /\ prune = NoPrune
    /\ imp = NoImport
    /\ sched = NoSchedule

RetrySend ==
    /\ call.pc = "ready"
    /\ call' = SendAttempt(call)
    /\ UNCHANGED <<ncalls, trav, link, run, prune, imp, sched>>

RetryReceive ==
    /\ call.pc = "inflight"
    /\ \E r \in Responses : call' = ReceiveAttempt(call, r)
    /\ UNCHANGED <<ncalls, trav, link, run, prune, imp, sched>>

RetryWake ==
    /\ call.pc = "sleep"
    /\ call' = WakeUp(call)
    /\ UNCHANGED <<ncalls, trav, link, run, prune, imp, sched>>

\* The caller issues its next logical request.
RetryNext ==
    /\ call.pc = "done"
    /\ ncalls < MaxCalls
    /\ call' = NewCall
    /\ ncalls' = ncalls + 1
    /\ UNCHANGED <<trav, link, run, prune, imp, sched>>

RetryStep == RetrySend \/ RetryReceive \/ RetryWake \/ RetryNext

SpecRetry == RetryInit /\ [][RetryStep]_vars

(***************************************************************************)
(* Claims about request_with_retries (specification SpecRetry).            *)
(***************************************************************************)

\* C4: when every attempt of a logical request is answered 429, the call ends
\* by surfacing an exhaustion error: it fails with a terminal error and never
\* hands its caller a value in place of the (status, decoded-body) pair.
C4_ExhaustionIsRaised ==
    (call.pc = "done" /\ call.only429) => call.result.kind = "raise"

\* C5: a 429 with an integer Retry-After of d seconds is followed by a sleep
\* of at least d seconds; with the header absent or not an integer the sleep
\* is 2^k seconds, k being the retry counter of the logical request (0 on
\* the first attempt, so k = attempts issued - 1), for every k below the cap;
\* the next attempt is issued only after that sleep.
C5_BackoffDelay ==
    (call.pc = "sleep" /\ call.cause = "429") =>
        /\ call.at = call.attempts - 1
        /\ call.at = call.retries
        /\ call.at < max_retries
        /\ IsIntText(call.hdr) => call.delay >= IntOf(call.hdr)
        /\ ~IsIntText(call.hdr) => call.delay = 2 ^ call.at

\* C5 witness: the last backoff the budget allows, with no usable header.
C5_Witness ==
    /\ call.pc = "sleep"
    /\ call.cause = "429"
    /\ call.hdr = None
    /\ call.at = max_retries - 1
    /\ call.delay = 512

C11_Non429ReturnsAtOnce ==
    call.last \in {"200", "201", "400", "500"} =>
        /\ call.pc = "done"
        /\ call.result.kind = "pair"
        /\ ToString(call.result.response.status) = call.last
        /\ call.result.data = Decode(call.result.response.body)

\* C12: a response other than 429 whose body cannot be decoded does not make
\* the call raise: the caller gets the response with the empty result {}.
C12_UndecodableBodyIsEmpty ==
    (call.pc = "done" /\ call.last \in {"200", "201", "400", "500"}
        /\ call.lastbody \in {"malformed", "binary"}) =>
        /\ call.result.kind = "pair"
        /\ call.result.data = EmptyDict

\* C31: one logical request has a single retry counter, used up by the sleep
\* after a 429 and by the sleep after a connection error alike: in every
\* interleaving of the two the call issues at most max_retries + 1 = 11
\* attempts and makes at most max_retries = 10 sleeps, and the outcome of the
\* 11th attempt ends the call, by return or by raise; the next logical request
\* starts with the counter, the attempts and the sleeps at 0.
C31_OneSharedCounter ==
    /\ [](/\ call.attempts <= max_retries + 1
          /\ call.sleeps <= max_retries
          /\ call.sleeps = call.retries + (IF call.pc = "sleep" THEN 1 ELSE 0)
          /\ call.attempts = call.retries + (IF call.pc = "ready" THEN 0 ELSE 1)
          /\ call.attempts = max_retries + 1 => call.pc \in {"inflight", "done"}
          /\ call.pc = "done" => call.result.kind \in {"pair", "bare", "raise"})
    /\ [][(call.pc = "done" /\ call'.pc # "done") =>
            /\ ncalls' = ncalls + 1
            /\ call'.pc = "ready"
            /\ call'.retries = 0 /\ call'.attempts = 0 /\ call'.sleeps = 0]_vars

\* C31 witness: the second logical request, made after the first one ended,
\* uses the whole budget on a mix of the two causes: its 10th attempt failed
\* with a connection error, its 11th was answered 429 and ended it.
C31_Witness ==
    /\ ncalls = 2
    /\ call.pc = "done"
    /\ call.attempts = max_retries + 1
    /\ call.sleeps = max_retries
    /\ call.cause = "conn"
    /\ call.last = "429"
    /\ ~call.only429

(***************************************************************************)
(* Claims about the listing traversals (specification SpecPages).          *)
(***************************************************************************)
AllItems(M) == [i \in 1 .. M |-> i]
PagesUpTo(n) == [i \in 1 .. n |-> i]

\* C2: get_all_keys, every page answered 200 with the Pagination header's
\* total_pages_count = ceil(M/P): the traversal requests every page
\* 1..total_pages_count and returns exactly the M items, each once.
C2_KeysComplete ==
    (trav.fn = "keys" /\ trav.pc = "returned" /\ trav.clean) =>
        /\ trav.items = AllItems(trav.M)
        /\ \A p \in 1 .. TotalPages(trav.M, trav.per_page) :
               \E i \in 1 .. Len(trav.requested) : trav.requested[i] = p

\* C3: get_all_projects, every page answered 200: the traversal returns
\* exactly the M items, each once and in page order, and stops at the first
\* empty page, having issued ceil(M/P) + 1 page requests (pages 1, 2, ...).
C3_ProjectsComplete ==
    (trav.fn = "projects" /\ trav.pc = "returned") =>
        /\ trav.clean
        /\ trav.items = AllItems(trav.M)
        /\ trav.requested = PagesUpTo(TotalPages(trav.M, trav.per_page) + 1)
        /\ PageItems(trav.M, trav.per_page, trav.page) = <<>>
        /\ \A p \in 1 .. trav.page - 1 : PageItems(trav.M, trav.per_page, p) # <<>>

\* C3 witness: a listing of more than one page (M > P) has been returned.
C3_Witness ==
    /\ trav.fn = "projects"
    /\ trav.pc = "returned"
    /\ trav.M = 4
    /\ trav.per_page = 3
    /\ Len(trav.requested) = 3

\* C22: a page whose final answer has a status other than 200 ends the
\* traversal by failing (the process exits, or an exception leaves the
\* function): the traversal never returns, so the items of the pages
\* fetched before are not handed to the caller.
NonSuccess == {ToString(st) : st \in Statuses \ {200}}
C22_NoPartialResult ==
    trav.last \in NonSuccess =>
        /\ trav.pc \in {"exit1", "raised"}
        /\ trav.pc # "returned"

\* get_all_projects has collected the items of page 1 and page 2 is
\* answered 500: the process exits.
C22_Witness ==
    /\ trav.fn = "projects"
    /\ trav.pc = "exit1"
    /\ trav.last = "500"
    /\ Len(trav.requested) = 2
    /\ Len(trav.items) > 0

\* C25: in every traversal the page numbers requested start at 1 and go up
\* strictly; a page is requested only when the responses of all the pages
\* requested before it have been handled, so at most one page request of
\* the traversal is outstanding; this holds again for a traversal started
\* after another has returned.
C25_PagesInOrder ==
    trav.pc # "idle" =>
        /\ trav.requested # <<>> => trav.requested[1] = 1
        /\ \A i \in 1 .. Len(trav.requested) - 1 :
                trav.requested[i] < trav.requested[i + 1]
        /\ Len(trav.requested) <= trav.page
        /\ trav.pc \in {"inflight", "call"} =>
                trav.requested[Len(trav.requested)] = trav.page
        /\ trav.pc = "loop" => Len(trav.requested) = trav.page - 1

\* The second traversal of the process has got its first page and waits
\* for the answer to its request for page 2.
C25_Witness ==
    /\ trav.nth = 2
    /\ trav.pc = "inflight"
    /\ trav.requested = <<1, 2>>
    /\ Len(trav.items) > 0

(***************************************************************************)
(* Claims about the scheduler (specification SpecLink).                    *)
(***************************************************************************)
InFlight == {i \in Tasks : link.task[i].pc = "inflight"}
Holders == {i \in Tasks : link.task[i].pc \in {"granted", "inflight", "sleep"}}

\* C1: with limit N >= 1 and any number W of link-creation items, in every
\* reachable state (every interleaving of the tasks' suspensions) at most N
\* requests governed by the semaphore are in flight; a request in flight is
\* always one of a task that holds a permit.
C1_AtMostNInFlight ==
    link.pc = "dispatch" =>
        /\ Cardinality(InFlight) <= link.N
        /\ Cardinality(Holders) + link.sem = link.N
        /\ link.sem >= 0

\* C1 witness: more items than permits, N requests in flight, one item waiting.
C1_Witness ==
    /\ link.pc = "dispatch"
    /\ Len(link.task) > link.N
    /\ link.N = 2
    /\ Cardinality(InFlight) = link.N
    /\ link.waiters # <<>>

\* C19 (SpecLink): no failure of a link-creation item leaves
\* create_key_link: no task ends by raising, none is cancelled, main is not
\* aborted; and when main reaches its completion step every item has a
\* terminal outcome and has been counted.
C19_FailureIsLocal ==
    /\ link.pc # "aborted"
    /\ \A i \in Tasks : link.task[i].pc # "cancelled" /\ link.task[i].outcome # "raised"
    /\ link.pc = "closed" =>
            /\ \A i \in Tasks : link.task[i].outcome \in {"linked", "failed", "exception"}
            /\ link.progress = link.total

\* A completed run in which one item failed with a status, one with an
\* exception, and a third was linked.
C19_Witness ==
    /\ link.pc = "closed"
    /\ \E i \in Tasks : link.task[i].outcome = "failed"
    /\ \E i \in Tasks : link.task[i].outcome = "exception"
    /\ \E i \in Tasks : link.task[i].outcome = "linked"

\* C20 (SpecLinkFair): every run reaches the completion step of main with
\* every item at a terminal outcome and counted, whatever the server
\* answers; in particular no item stays suspended waiting for a permit.
C20_AllItemsComplete ==
    <>(/\ link.pc = "closed"
       /\ link.progress = link.total
       /\ \A i \in Tasks : link.task[i].pc = "collected" /\ link.task[i].outcome # None)

\* A completed run of more items than permits, in which one item ended
\* with an exception and another was linked.
C20_Witness ==
    /\ link.pc = "closed"
    /\ link.total > link.N
    /\ link.progress = link.total
    /\ \E i \in Tasks : link.task[i].outcome = "exception"
    /\ \E i \in Tasks : link.task[i].outcome = "linked"

\* C28 (SpecLink): the permits checked out are as many as the tasks between
\* their acquire and the end of their "async with", one each, and so
\* between 0 and N; a task that has not acquired or has ended holds none;
\* once every item has ended all N permits are back; and a step that takes
\* a task into or out of a backoff sleep moves no permit.
CheckedOut == link.N - link.sem
C28_PermitConservation ==
    /\ [](link.pc # "idle" =>
            /\ CheckedOut = Cardinality(Holders)
            /\ CheckedOut >= 0 /\ CheckedOut <= link.N
            /\ \A i \in Tasks :
                    link.task[i].pc \in {"inflight", "sleep"} => i \in Holders
            /\ (\A i \in Tasks : link.task[i].pc \in {"finished", "collected"})
                    => CheckedOut = 0)
    /\ [][\A i \in Tasks :
            (\/ link.task[i].pc = "inflight" /\ link'.task[i].pc = "sleep"
             \/ link.task[i].pc = "sleep" /\ link'.task[i].pc = "inflight")
                => /\ link'.sem = link.sem
                   /\ link'.waiters = link.waiters
                   /\ \A j \in Tasks : (j \in Holders) <=> (j \in Holders')]_vars

\* Both permits are out, one of them with a task that sleeps before its
\* third attempt, while another item waits for a permit.
C28_Witness ==
    /\ link.pc = "dispatch"
    /\ link.N = 2
    /\ link.sem = 0
    /\ link.waiters # <<>>
    /\ \E i \in Tasks : link.task[i].pc = "sleep" /\ link.task[i].retries = 1

(***************************************************************************)
(* Claims about the reconciliation of main (specification SpecMain).       *)
(***************************************************************************)
ChildIds == KeyIds(Flatten(run.srv.children))
ChildName(x) ==
    LET keys == Flatten(run.srv.children) IN
    keys[CHOOSE n \in 1 .. Len(keys) : keys[n].id = x].name
\* x is among the existing links fetched for some parent key.
ObservedLinked(x) ==
    \E n \in 1 .. Len(run.linked_keys_dict) : SeqHas(run.linked_keys_dict[n].val, x)
\* The fetched parent keys whose name is the name of child key x.
MatchedParents(x) ==
    {n \in 1 .. Len(run.parent_keys) : run.parent_keys[n].name = ChildName(x)}
\* The link-creation calls (tasks) whose payload contains x.
CallsWith(x) == {i \in Tasks : SeqHas(link.task[i].children, x)}

\* C7: a child key X observed (by the existing-links fetch) as linked to a
\* parent key and matched by name to two different parent keys is in the
\* payload of at most one link-creation call of the whole run.
C7_LinkDedup ==
    run.pc = "dispatch" =>
        \A x \in ChildIds :
            (ObservedLinked(x) /\ Cardinality(MatchedParents(x)) >= 2) =>
                Cardinality(CallsWith(x)) <= 1

\* C7 witness: x1 is observed linked to p1 and matches both parent keys; the
\* run has issued and completed its two calls (for x3), none of them with x1.
C7_Witness ==
    /\ run.pc = "dispatch"
    /\ link.pc = "closed"
    /\ link.progress = 2
    /\ ObservedLinked("x1")
    /\ MatchedParents("x1") = {1, 2}
    /\ CallsWith("x3") = {1, 2}

\* C18 (SpecMain): a key listing of one child project that is answered with
\* a status other than 200, while other child projects are still to be
\* fetched, does not end the run: those projects are still fetched and
\* diffed.
C18_ChildFetchFailureIsLocal ==
    (run.failed = "child_keys" /\ run.j < Len(ChildProjects(run.projects)))
        => run.pc # "exit1"

\* C29 (SpecMain): when the diff is done, the pairs (parent key, child key)
\* in the payloads of the link-creation tasks are exactly the pairs of a key
\* of the parent project that has an id and a name and a key of a child
\* project of the very same name that is not among the links observed for
\* any parent key.
ParentKeysOnServer ==
    {run.srv.parents[n] : n \in 1 .. Len(run.srv.parents)}
ChildKeysOnServer ==
    LET keys == Flatten(run.srv.children) IN {keys[n] : n \in 1 .. Len(keys)}
ExpectedPairs ==
    {<<pk.id, ck.id>> : <<pk, ck>> \in
        {pc \in ParentKeysOnServer \X ChildKeysOnServer :
            /\ pc[1].id # None
            /\ pc[1].name # None
            /\ pc[1].name = pc[2].name
            /\ ~ObservedLinked(pc[2].id)}}
ScheduledPairs ==
    UNION {{<<link.task[i].parent, link.task[i].children[n]>> :
                n \in 1 .. Len(link.task[i].children)} : i \in Tasks}
C29_ScheduledExactly ==
    run.pc = "dispatch" => ScheduledPairs = ExpectedPairs

\* C30 (SpecMain): a link-creation call has been issued only when main has
\* left its fetching and diffing loops for good, all projects, keys and
\* existing links fetched; and from the moment the tasks exist, and so from
\* the first link-creation call on, no listing or fetch is called.
Posted ==
    \E i \in Tasks : link.task[i].pc \in {"inflight", "sleep", "finished", "collected"}
C30_PhasesInOrder ==
    /\ []((Posted \/ link.pc # "idle") =>
            /\ run.pc = "dispatch"
            /\ run.i = Len(run.parent_keys) + 1
            /\ run.b >= Len(run.parent_keys) \/ ChildProjects(run.projects) = <<>>)
    /\ [][(Posted \/ link.pc # "idle") => run'.fetches = run.fetches]_vars

\* The run has called the project listing, the parent key listing, two
\* existing-links fetches and two child key listings, and then issued
\* link-creation calls, one of which has ended.
C30_Witness ==
    /\ run.pc = "dispatch"
    /\ run.fetches = 6
    /\ \E i \in Tasks : link.task[i].pc = "inflight"
    /\ \E i \in Tasks : link.task[i].pc = "collected"

(***************************************************************************)
(* C8 (SpecPrune).  When the script has finished a project whose users it  *)
(* got, with C users created strictly after the cutoff: exactly            *)
(* max(0, C - USER_LIMIT) delete calls were issued, each for another user, *)
(* all for users created after the cutoff, and no user left alone among    *)
(* those is newer than a deleted one.                                      *)
(***************************************************************************)
PostCutoff(users) ==
    {i \in 1 .. Len(users) : users[i].stamp = "ok" /\ users[i].created_at > Cutoff}
Deletes == SelectSeq(prune.calls, LAMBDA c : c.method = "DELETE")
DeleteTargets == {Deletes[k].id : k \in 1 .. Len(Deletes)}
C8_QuotaPrune ==
    prune.pc = "project_done" /\ prune.fetched =>
        LET users == ListingOf(prune.shape)
            post == PostCutoff(users)
            C == Cardinality(post)
        IN /\ Len(Deletes) = Max(0, C - USER_LIMIT)
           /\ Cardinality(DeleteTargets) = Len(Deletes)
           /\ \A id \in DeleteTargets : \E i \in post : users[i].has_id /\ users[i].id = id
           /\ \A i \in post, j \in post :
                users[i].id \in DeleteTargets /\ users[j].id \notin DeleteTargets
                    => users[i].created_at >= users[j].created_at

(***************************************************************************)
(* C9 (SpecPrune).  Every call of the run that is not a GET is a DELETE    *)
(* of a user of the project who has a readable created_at that is          *)
(* strictly after the cutoff.                                              *)
(***************************************************************************)
C9_OnlyPostCutoffDeleted ==
    prune.pc # "idle" =>
        \A k \in 1 .. Len(prune.calls) :
            prune.calls[k].method # "GET" =>
                /\ prune.calls[k].method = "DELETE"
                /\ LET users == ListingOf(prune.shape) IN
                   \E i \in PostCutoff(users) :
                        users[i].has_id /\ users[i].id = prune.calls[k].id

\* A project with a user created before the cutoff and one created at the
\* cutoff, in which users have been deleted.
C9_Witness ==
    /\ prune.pc = "project_done"
    /\ Len(Deletes) > 0
    /\ LET users == ListingOf(prune.shape) IN
        /\ \E i \in 1 .. Len(users) : users[i].stamp = "ok" /\ users[i].created_at < Cutoff
        /\ \E i \in 1 .. Len(users) : users[i].stamp = "ok" /\ users[i].created_at = Cutoff

(***************************************************************************)
(* C13 (SpecPrune).  A user record without created_at or without id is     *)
(* skipped on its own: when the script has finished a project whose users  *)
(* it got, with C users whose created_at is readable and after the cutoff, *)
(* all the excess C - USER_LIMIT users have been deleted but for those     *)
(* that have no id.                                                        *)
(***************************************************************************)
C13_PerRecordSkip ==
    prune.pc = "project_done" /\ prune.fetched =>
        LET users == ListingOf(prune.shape)
            post == PostCutoff(users)
            noid == {i \in post : ~users[i].has_id}
        IN Len(Deletes) >= Cardinality(post) - USER_LIMIT - Cardinality(noid)


(***************************************************************************)
(* C10 (SpecImport).  Whenever create_entity is answered with status 409   *)
(* for a valid row, skipped grows by one, success and errors stay as they  *)
(* are, and the loop is back at its head with the row used up and the      *)
(* progress bar moved on, no exception having ended the run.               *)
(***************************************************************************)
C10_ConflictIsSkipped ==
    [][(imp.pc = "creating" /\ imp'.posts = imp.posts + 1
            /\ imp'.answer.kind = "response" /\ imp'.answer.status = 409)
        => /\ imp'.stats = [imp.stats EXCEPT !.skipped = @ + 1]
           /\ imp'.pc = "row"
           /\ imp'.remaining = imp.remaining - 1
           /\ imp'.pbar = imp.pbar + 1]_vars

\* The loop is at its head with rows left, the row before answered 409 and
\* counted as skipped.
C10_Witness ==
    /\ imp.pc = "row"
    /\ imp.remaining > 0
    /\ imp.answer.kind = "response"
    /\ imp.answer.status = 409
    /\ imp.stats.skipped > 0
    /\ imp.stats.errors = 0

(***************************************************************************)
(* C14 (SpecImport).  When the loop reads a row whose type is one of       *)
(* CSV_FIELDS and which has no value for a required field of that type,    *)
(* no create call is issued, errors grows by one, success and skipped stay *)
(* as they are, and the loop is back at its head for the following rows.   *)
(***************************************************************************)
TypeOf(raw) == IF raw.type = None THEN "" ELSE lower(strip(raw.type))
LacksRequired(raw) ==
    /\ TypeOf(raw) \in DOMAIN CSV_FIELDS
    /\ \E k \in 1 .. Len(CSV_FIELDS[TypeOf(raw)]) :
            LET v == raw[CSV_FIELDS[TypeOf(raw)][k]] IN v = None \/ strip(v) = ""
C14_MissingFieldIsError ==
    [][(imp'.nread = imp.nread + 1 /\ LacksRequired(imp'.raw))
        => /\ imp'.stats = [imp.stats EXCEPT !.errors = @ + 1]
           /\ imp'.posts = imp.posts
           /\ imp'.pc = "row"
           /\ imp'.remaining = imp.remaining - 1]_vars

(***************************************************************************)
(* C15 (SpecImport).  In a dry run no create call is ever issued, and      *)
(* every row that reaches and passes the checks of lines 145-152 adds      *)
(* exactly one to success and nothing to the other counters.               *)
(***************************************************************************)
PassesValidation(raw) ==
    /\ process_csv(raw).kind = "row"
    /\ TypeOf(raw) \in DOMAIN CSV_FIELDS
    /\ validate_row(TypeOf(raw), process_csv(raw).row)
C15_DryRun ==
    [][imp.dry_run =>
        /\ imp'.posts = 0
        /\ imp'.pc # "creating"
        /\ (imp'.nread = imp.nread + 1 /\ PassesValidation(imp'.raw)) =>
                imp'.stats = [imp.stats EXCEPT !.success = @ + 1]]_vars

\* A dry run that has counted two valid rows and issued no create call.
C15_Witness ==
    /\ imp.pc = "done"
    /\ imp.dry_run
    /\ imp.stats.success >= 2
    /\ imp.posts = 0
    /\ PassesValidation(imp.raw)

(***************************************************************************)
(* C16 (SpecImport).  A run that a user interrupt stopped has emitted its  *)
(* statistics by the time the process exits, and issued no call after the  *)
(* interrupt.                                                              *)
(***************************************************************************)
C16_InterruptEmitsStatistics ==
    (imp.pc = "exit" /\ imp.exc = "KeyboardInterrupt") => imp.emitted

(***************************************************************************)
(* C17 (SpecImport).  The process exits with status 1 exactly when the     *)
(* setup failed (the login was refused, the file could not be read), and   *)
(* with status 0 otherwise.                                                *)
(***************************************************************************)
SetupFailed ==
    imp.nread = 0 /\ imp.exc \in {"HTTPError", "FileNotFoundError"}
C17_ExitCode ==
    imp.pc = "exit" => (imp.code = 1 <=> SetupFailed)

(***************************************************************************)
(* C21 (SpecLink, SpecImport).  The progress counter counts completed      *)
(* items: in the scheduler it is the number of items main has awaited to   *)
(* their end, never more than the items that have ended, and the total     *)
(* when main closes the bar; in bulk_import it is the number of rows       *)
(* counted in the statistics, and the total number of rows when a run that *)
(* got past its setup and was not interrupted ends.                        *)
(***************************************************************************)
Ended == {i \in Tasks : link.task[i].pc \in {"finished", "collected"}}
Collected == {i \in Tasks : link.task[i].pc = "collected"}
LinkProgressCounts ==
    link.pc \in {"dispatch", "closed"} =>
        /\ link.progress = Cardinality(Collected)
        /\ link.progress <= Cardinality(Ended)
        /\ link.progress <= link.total
        /\ link.pc = "closed" => link.progress = link.total
RowsCounted == imp.stats.success + imp.stats.errors + imp.stats.skipped
RunEnded ==
    /\ imp.pc = "exit"
    /\ imp.exc \notin {"KeyboardInterrupt", "HTTPError", "ConnectionError",
                       "FileNotFoundError"}
ImportProgressCounts ==
    /\ (imp.pc # "idle" /\ imp.exc # "KeyboardInterrupt") => imp.pbar = RowsCounted
    /\ imp.pc # "idle" => imp.pbar <= imp.total
    /\ RunEnded => imp.pbar = imp.total
C21_ProgressCountsCompleted ==
    LinkProgressCounts /\ ImportProgressCounts

(***************************************************************************)
(* C23 (SpecImport).  Whenever a POST of a create call is answered 429:    *)
(* while the call has retries left it is retried, the row staying          *)
(* uncounted, and the row is counted as an error only when the MAX_RETRIES *)
(* retries of the call are used up.                                        *)
(***************************************************************************)
C23_TransientIsRetried ==
    [][(imp.pc = "creating" /\ imp'.pc # "raised"
            /\ imp'.answer.kind = "response" /\ imp'.answer.status = 429)
        => /\ imp.tries < MAX_RETRIES =>
                /\ imp'.pc = "creating"
                /\ imp'.tries = imp.tries + 1
                /\ imp'.stats = imp.stats
           /\ imp'.stats # imp.stats =>
                /\ imp.tries = MAX_RETRIES
                /\ imp'.stats = [imp.stats EXCEPT !.errors = @ + 1]]_vars

(***************************************************************************)
(* C24 (SpecImport).  Unless the user interrupts the run: the rows the     *)
(* loop has read and is done with are as many as success + skipped +       *)
(* errors; a step changes at most one counter, by exactly one, and none    *)
(* goes down; and a run that got past its setup and has read all the rows *)
(* of the file has logged the three counts when the process exits.         *)
(***************************************************************************)
RowsDone == imp.nread - (IF imp.pc = "creating" THEN 1 ELSE 0)
Counters == {"success", "skipped", "errors"}
C24_EveryRowCounted ==
    /\ []((imp.pc # "idle" /\ imp.exc # "KeyboardInterrupt") =>
            /\ RowsCounted = RowsDone
            /\ (RunEnded /\ imp.nread = imp.total) => imp.emitted)
    /\ [][/\ \A c \in Counters : imp'.stats[c] >= imp.stats[c]
          /\ \/ imp'.stats = imp.stats
             \/ \E c \in Counters : imp'.stats = [imp.stats EXCEPT ![c] = @ + 1]]_vars

(***************************************************************************)
(* C26 (SpecPrune).  When the script has finished a project whose users    *)
(* it got, every record having an id and a readable created_at, and every  *)
(* delete call it issued was answered 204, the users left in the project   *)
(* (those listed less those deleted) are at most USER_LIMIT.               *)
(***************************************************************************)
AllReadable(users) ==
    \A i \in 1 .. Len(users) : users[i].has_id /\ users[i].stamp = "ok"
UsersLeft == Len(ListingOf(prune.shape)) - Cardinality(DeleteTargets)
C26_WithinLimit ==
    (/\ prune.pc = "project_done"
     /\ prune.fetched
     /\ AllReadable(ListingOf(prune.shape))
     /\ \A k \in 1 .. Len(Deletes) : Deletes[k].status = "204")
        => UsersLeft <= USER_LIMIT

(***************************************************************************)
(* C27 (SpecSchedule).  Whenever the process was started, at START_DATE or *)
(* later: a cleanup starts at least RUN_INTERVAL after the cleanup before  *)
(* it.                                                                     *)
(***************************************************************************)
C27_WeeklyRuns ==
    sched.runs >= 2 => sched.gap >= RUN_INTERVAL

====
